---- MODULE Spec2Model ----
(***************************************************************************)
(* A model of greenlight's credential subsystem:                           *)
(*   - package mailer: Mailer.Send (template rendering, bounded retry),     *)
(*   - package data:   UserModel.Insert / GetByEmail / Update over the      *)
(*                     users table (optimistic concurrency on version).    *)
(* The relational store is modelled by what the SQL statements in the      *)
(* source say: a users table with a unique email (users_email_key) and a   *)
(* conditional UPDATE ... WHERE id = $5 AND version = $6.                  *)
(***************************************************************************)
EXTENDS Integers, Sequences, FiniteSets, TLC

VARIABLES
    \* ---- Mailer.Send (one call at a time on the calling goroutine) ----
    mpc,      \* position inside Send: idle, parse, subject, plainBody, htmlBody, dial, sleep, done
    margs,    \* the arguments of the running call: [recipient, templateFile]
    i,        \* the loop counter of the retry loop
    err,      \* the local variable err
    ret,      \* the value Send returned (meaningful when mpc = "done")
    dials,    \* DialAndSend calls made by the running call
    sleeps,   \* time.Sleep calls made by the running call
    steps,    \* template operations executed by the running call, in order
    outbox,   \* messages the transport accepted, per recipient
    sends,    \* Send calls started so far
    \* ---- the users table and its callers ----
    users,    \* the table: id -> row
    local,    \* each caller's in-memory *User
    res,      \* the last store call: the operation and the error it returned
    slow,     \* environment: whether a statement may exceed its 3 s deadline
    wins,     \* history: successful Updates per (id, version the caller passed)
    \* ---- the tokens table and TokenModel ----
    tokens,   \* the table: the rows in insertion order
    now,      \* the clock time.Now() reads
    tres,     \* the last TokenModel call: the operation, the token and the error it returned
    \* ---- a password struct and its caller ----
    pw,       \* the password struct: plaintext and hash
    pres,     \* the last password call and what it returned
    \* ---- ValidateUser ----
    vin,      \* the user ValidateUser is called with
    vout      \* what the call did: the validator's errors, or a panic

mvars == <<mpc, margs, i, err, ret, dials, sleeps, steps, outbox, sends>>
uvars == <<users, local, res, slow, wins>>
tvars == <<tokens, now, tres>>
pvars == <<pw, pres, vin, vout>>
vars == <<mpc, margs, i, err, ret, dials, sleeps, steps, outbox, sends,
          users, local, res, slow, wins, tokens, now, tres, pw, pres, vin, vout>>

Nil == "nil"

(***************************************************************************)
(* Bounds of the model.                                                    *)
(***************************************************************************)
MaxSends == 2
MaxVersion == 3
MaxUsers == 2
MaxTokens == 2
MaxTime == 1

(***************************************************************************)
(* package mailer                                                          *)
(***************************************************************************)
MaxAttempts == 3
BackoffMs == 500

\* The embedded template bundle: file name -> the fragments that render.
\* A file that is not in the bundle makes ParseFS fail.
TemplateFS ==
    [f \in {"user_welcome.tmpl", "no_subject.tmpl", "no_plain.tmpl", "no_html.tmpl"} |->
        CASE f = "user_welcome.tmpl" -> {"subject", "plainBody", "htmlBody"}
          [] f = "no_subject.tmpl"   -> {"plainBody", "htmlBody"}
          [] f = "no_plain.tmpl"     -> {"subject", "htmlBody"}
          [] f = "no_html.tmpl"      -> {"subject", "plainBody"}]

TemplateFiles == DOMAIN TemplateFS \cup {"missing.tmpl"}
Recipients == {"a@x.com", "b@x.com"}
\* What DialAndSend can return: nil, or a delivery error.
DialErrors == {"dial tcp: i/o timeout", "smtp: rejected"}
DialResults == {Nil} \cup DialErrors
TemplateErr == "template error"

\* The position after a template operation that succeeded.
AfterStep(s) ==
    CASE s = "parse"     -> "subject"
      [] s = "subject"   -> "plainBody"
      [] s = "plainBody" -> "htmlBody"
      [] s = "htmlBody"  -> "dial"

\* StepOK with the template errors ignored.
StepOKIgnoringErrors(s, f) == TRUE

\* Whether template operation s succeeds for file f.
StepOK(s, f) ==
    IF s = "parse" THEN f \in DOMAIN TemplateFS
    ELSE s \in TemplateFS[f]

\* Whether every template operation succeeds for file f.
Renders(f) == f \in DOMAIN TemplateFS /\ TemplateFS[f] = {"subject", "plainBody", "htmlBody"}

\* LoopExit as the comment on the loop describes it: the final error is returned.
LoopExitFinalError(e) == e

\* The value Send returns once the loop has run out of attempts.
LoopExit(e) == Nil

\* AfterDial without the err == nil test: the loop goes on after a success.
AfterDialNoReturn(e) == "sleep"

\* Where Send goes after DialAndSend returned e.
AfterDial(e) == IF e = Nil THEN "done" ELSE "sleep"

\* The loop condition.
LoopCond(n) == n <= MaxAttempts

SendCall(r, f) ==
    /\ mpc \in {"idle", "done"}
    /\ sends < MaxSends
    /\ sends' = sends + 1
    /\ margs' = [recipient |-> r, templateFile |-> f]
    /\ mpc' = "parse"
    /\ i' = 0
    /\ err' = Nil
    /\ ret' = Nil
    /\ dials' = 0
    /\ sleeps' = 0
    /\ steps' = <<>>
    /\ UNCHANGED <<outbox>>
    /\ UNCHANGED <<uvars, tvars, pvars>>

\* ParseFS and the three ExecuteTemplate calls: each returns its error at once.
Render ==
    /\ mpc \in {"parse", "subject", "plainBody", "htmlBody"}
    /\ steps' = Append(steps, mpc)
    /\ IF StepOK(mpc, margs.templateFile)
       THEN /\ mpc' = AfterStep(mpc)
            /\ i' = IF mpc = "htmlBody" THEN 1 ELSE i
            /\ UNCHANGED <<err, ret>>
       ELSE /\ mpc' = "done"
            /\ err' = TemplateErr
            /\ ret' = TemplateErr
            /\ UNCHANGED i
    /\ UNCHANGED <<margs, dials, sleeps, outbox, sends>>
    /\ UNCHANGED <<uvars, tvars, pvars>>

\* One DialAndSend call; the transport decides what it returns.
Dial(e) ==
    /\ mpc = "dial"
    /\ dials' = dials + 1
    /\ err' = e
    /\ mpc' = AfterDial(e)
    /\ ret' = IF AfterDial(e) = "done" THEN Nil ELSE ret
    /\ outbox' = IF e = Nil
                 THEN [outbox EXCEPT ![margs.recipient] = @ + 1]
                 ELSE outbox
    /\ UNCHANGED <<margs, i, sleeps, steps, sends>>
    /\ UNCHANGED <<uvars, tvars, pvars>>

\* time.Sleep(500ms), then i++ and the loop condition.
Sleep ==
    /\ mpc = "sleep"
    /\ sleeps' = sleeps + 1
    /\ i' = i + 1
    /\ IF LoopCond(i + 1)
       THEN mpc' = "dial" /\ UNCHANGED ret
       ELSE mpc' = "done" /\ ret' = LoopExit(err)
    /\ UNCHANGED <<margs, err, dials, steps, outbox, sends>>
    /\ UNCHANGED <<uvars, tvars, pvars>>

\* A step of the running Send call.
SendStep == Render \/ (\E e \in DialResults : Dial(e)) \/ Sleep

NextMailer ==
    \/ \E r \in Recipients, f \in TemplateFiles : SendCall(r, f)
    \/ Render
    \/ \E e \in DialResults : Dial(e)
    \/ Sleep


(***************************************************************************)
(* package data: the users table, UserModel and its callers                *)
(***************************************************************************)
ErrDuplicateEmail == "duplicate email"
ErrEditConflict == "edit conflict"
ErrRecordNotFound == "record not found"
\* What the driver returns when the 3 s context deadline passes.
ErrDeadline == "context deadline exceeded"

Writers == {"w1", "w2"}
Names == {"Alice"}
Emails == {"a@x.com", "b@x.com"}
\* A nil Password.hash, and the bcrypt digests callers supply.
NoHash == "nil hash"
Hashes == {NoHash, "$2a$12$digest"}
\* A nil *User.
NoUser == [ID |-> -1]

\* The version the table gives a new row.
InitialVersion == 1

\* The User struct a caller builds before Insert (ID and Version zero).
NewUser(n, e, h) ==
    [ID |-> 0, Name |-> n, Email |-> e, hash |-> h, Activated |-> FALSE, Version |-> 0]

\* The changes a caller makes to its in-memory record before calling Update:
\* none, a new email, a new password digest.
Edits ==
    {[field |-> "none", value |-> Nil]}
        \cup {[field |-> "Email", value |-> e] : e \in Emails}
        \cup {[field |-> "hash", value |-> h] : h \in Hashes \ {NoHash}}

Apply(u, ed) ==
    CASE ed.field = "none"  -> u
      [] ed.field = "Email" -> [u EXCEPT !.Email = ed.value]
      [] ed.field = "hash"  -> [u EXCEPT !.hash = ed.value]

\* Whether a statement exceeds its deadline: only a slow store can.
Late == IF slow THEN BOOLEAN ELSE {FALSE}

\* The SELECT with its WHERE clause dropped.
MatchingAll(t, email) == DOMAIN t

\* The rows the SELECT's WHERE email = $1 matches.
Matching(t, email) == {id \in DOMAIN t : t[id].email = email}

\* users_email_key never enforced.
EmailTakenNever(t, email, except) == FALSE

\* users_email_key enforced on INSERT only.
EmailTakenInsertOnly(t, email, except) ==
    except = 0 /\ \E id \in DOMAIN t : t[id].email = email

\* The unique constraint users_email_key: a row other than `except` holds email.
EmailTaken(t, email, except) ==
    \E id \in DOMAIN t : id # except /\ t[id].email = email

\* The UPDATE without the version in its WHERE clause: id = $5 only.
UpdateMatchesIdOnly(t, u) == u.ID \in DOMAIN t

\* The WHERE clause of the UPDATE: id = $5 AND version = $6.
UpdateMatches(t, u) ==
    u.ID \in DOMAIN t /\ t[u.ID].version = u.Version

\* The SET clause without version = version + 1.
UpdatedRowNoIncrement(r, u) ==
    [name |-> u.Name, email |-> u.Email, hash |-> u.hash,
     activated |-> u.Activated, version |-> r.version]

\* The SET clause of the UPDATE applied to row r.
UpdatedRow(r, u) ==
    [name |-> u.Name, email |-> u.Email, hash |-> u.hash,
     activated |-> u.Activated, version |-> r.version + 1]

\* The row the INSERT statement adds.
InsertedRow(u) ==
    [name |-> u.Name, email |-> u.Email, hash |-> u.hash,
     activated |-> u.Activated, version |-> InitialVersion]

\* The User a SELECT scans out of row id.
Scanned(t, id) ==
    [ID |-> id, Name |-> t[id].name, Email |-> t[id].email, hash |-> t[id].hash,
     Activated |-> t[id].activated, Version |-> t[id].version]

\* Update that scans nothing back into the caller's struct.
AfterUpdateNoScan(u, v) == u

\* Scan(&user.Version) of the RETURNING version, into the caller's struct.
AfterUpdate(u, v) == [u EXCEPT !.Version = v]

Bump(w, k) == [wins EXCEPT ![k] = @ + 1]

\* UserModel.Insert(user): the INSERT ... RETURNING id, created_at, version.
\* On an error nothing is scanned into the struct, and the caller drops it.
Insert(w, n, e, h) ==
    LET u == NewUser(n, e, h) IN
    \E late \in Late :
        /\ Len(users) < MaxUsers
        /\ IF late
           THEN /\ res' = [op |-> "Insert", err |-> ErrDeadline]
                /\ local' = [local EXCEPT ![w] = NoUser]
                /\ UNCHANGED users
           ELSE IF EmailTaken(users, e, 0)
           THEN /\ res' = [op |-> "Insert", err |-> ErrDuplicateEmail]
                /\ local' = [local EXCEPT ![w] = NoUser]
                /\ UNCHANGED users
           ELSE /\ users' = Append(users, InsertedRow(u))
                /\ local' = [local EXCEPT ![w] =
                                [u EXCEPT !.ID = Len(users) + 1, !.Version = InitialVersion]]
                /\ res' = [op |-> "Insert", err |-> Nil]
        /\ UNCHANGED <<slow, wins>>
        /\ UNCHANGED <<mvars, tvars, pvars>>

\* UserModel.GetByEmail(email): the SELECT ... WHERE email = $1.
GetByEmail(w, e) ==
    \E late \in Late :
        /\ IF late
           THEN /\ res' = [op |-> "GetByEmail", err |-> ErrDeadline]
                /\ local' = [local EXCEPT ![w] = NoUser]
           ELSE IF Matching(users, e) = {}
           THEN /\ res' = [op |-> "GetByEmail", err |-> ErrRecordNotFound]
                /\ local' = [local EXCEPT ![w] = NoUser]
           ELSE /\ res' = [op |-> "GetByEmail", err |-> Nil]
                /\ local' = [local EXCEPT ![w] =
                                Scanned(users, CHOOSE id \in Matching(users, e) : TRUE)]
        /\ UNCHANGED <<users, slow, wins>>
        /\ UNCHANGED <<mvars, tvars, pvars>>

\* UserModel.Update(user) on the caller's record after the caller's edit:
\* the UPDATE ... WHERE id = $5 AND version = $6 RETURNING version.
Update(w, ed) ==
    LET u == Apply(local[w], ed) IN
    \E late \in Late :
        /\ local[w] # NoUser
        /\ IF late
           THEN /\ res' = [op |-> "Update", err |-> ErrDeadline]
                /\ local' = [local EXCEPT ![w] = u]
                /\ UNCHANGED <<users, wins>>
           ELSE IF ~UpdateMatches(users, u)
           THEN /\ res' = [op |-> "Update", err |-> ErrEditConflict]
                /\ local' = [local EXCEPT ![w] = u]
                /\ UNCHANGED <<users, wins>>
           ELSE IF EmailTaken(users, u.Email, u.ID)
           THEN /\ res' = [op |-> "Update", err |-> ErrDuplicateEmail]
                /\ local' = [local EXCEPT ![w] = u]
                /\ UNCHANGED <<users, wins>>
           ELSE /\ u.Version < MaxVersion
                /\ users' = [users EXCEPT ![u.ID] = UpdatedRow(@, u)]
                /\ local' = [local EXCEPT ![w] = AfterUpdate(u, users'[u.ID].version)]
                /\ res' = [op |-> "Update", err |-> Nil]
                /\ wins' = Bump(w, <<u.ID, u.Version>>)
        /\ UNCHANGED slow
        /\ UNCHANGED <<mvars, tvars, pvars>>

NextUsers ==
    \/ \E w \in Writers, n \in Names, e \in Emails, h \in Hashes : Insert(w, n, e, h)
    \/ \E w \in Writers, e \in Emails : GetByEmail(w, e)
    \/ \E w \in Writers, ed \in Edits : Update(w, ed)


(***************************************************************************)
(* package data: tokens, generateToken and TokenModel                      *)
(***************************************************************************)
ScopeActivation == "activation"
ScopeAuthentication == "authentication"
Scopes == {ScopeActivation, ScopeAuthentication}
\* The owners and lifetimes callers ask tokens for.
TokenUsers == {1, 2}
TTLs == {1}

\* make([]byte, 16)
RandomLen == 16
\* What rand.Read can leave in the slice, and its failure.
RandomBytes ==
    {[k \in 1..RandomLen |-> 255], [k \in 1..RandomLen |-> (k * 37) % 256]}
\* The outcomes of rand.Read: the slice filled and a nil error, or an error and
\* the slice as make left it.
RandFail == [ok |-> FALSE, bytes |-> [k \in 1..RandomLen |-> 0]]
RandOutcomes == {[ok |-> TRUE, bytes |-> b] : b \in RandomBytes} \cup {RandFail}
ErrRand == "rand error"
\* The nil *Token.
NoToken == [UserID |-> -1]

\* The alphabet of base32.StdEncoding.
Alphabet ==
    <<"A", "B", "C", "D", "E", "F", "G", "H", "I", "J", "K", "L", "M", "N", "O", "P",
      "Q", "R", "S", "T", "U", "V", "W", "X", "Y", "Z", "2", "3", "4", "5", "6", "7">>

\* Bit k (from 1, most significant first) of a byte sequence; 0 past its end.
BitAt(bytes, k) ==
    IF k > 8 * Len(bytes) THEN 0
    ELSE (bytes[((k - 1) \div 8) + 1] \div (2 ^ (7 - ((k - 1) % 8)))) % 2

\* The base-32 digit made of bits 5(j-1)+1 .. 5j.
Quintet(bytes, j) ==
    16 * BitAt(bytes, 5 * j - 4) + 8 * BitAt(bytes, 5 * j - 3) + 4 * BitAt(bytes, 5 * j - 2)
        + 2 * BitAt(bytes, 5 * j - 1) + BitAt(bytes, 5 * j)

\* The number of base-32 digits that hold n bytes.
Digits(n) == (8 * n + 4) \div 5

\* base32.StdEncoding.EncodeToString: the digits, padded with "=" to a
\* multiple of 8 characters.
Base32EncodePadded(bytes) ==
    LET n == Digits(Len(bytes))
        m == ((n + 7) \div 8) * 8
    IN [j \in 1..m |-> IF j <= n THEN Alphabet[Quintet(bytes, j) + 1] ELSE "="]

\* base32.StdEncoding.WithPadding(base32.NoPadding).EncodeToString
Base32Encode(bytes) ==
    [j \in 1..Digits(Len(bytes)) |-> Alphabet[Quintet(bytes, j) + 1]]

\* The plaintext of every slice rand.Read can leave, encoded once.
PlainTextOf == [bytes \in {o.bytes : o \in RandOutcomes} |-> Base32Encode(bytes)]

\* sha256.Sum256, taken as a collision-free function of its input.
Sha256(text) == <<"sha256", text>>

\* generateToken that does not look at rand.Read's error and goes on with the
\* zeroed slice.
GenerateTokenIgnoringRandError(userID, ttl, scope, rnd, t) ==
    LET plain == PlainTextOf[rnd.bytes]
    IN [token |-> [PlainText |-> plain, Hash |-> Sha256(plain), UserID |-> userID,
                   Expiry |-> t + ttl, Scope |-> scope],
        err |-> Nil]

\* generateToken(userID, ttl, scope) at time t, rand.Read giving rnd.
GenerateToken(userID, ttl, scope, rnd, t) ==
    IF ~rnd.ok
    THEN [token |-> NoToken, err |-> ErrRand]
    ELSE LET plain == PlainTextOf[rnd.bytes]
         IN [token |-> [PlainText |-> plain, Hash |-> Sha256(plain), UserID |-> userID,
                        Expiry |-> t + ttl, Scope |-> scope],
             err |-> Nil]

\* The row the INSERT INTO tokens (hash, user_id, expiry, scope) adds.
TokenRow(token) ==
    [hash |-> token.Hash, user_id |-> token.UserID, expiry |-> token.Expiry,
     scope |-> token.Scope]

\* The DELETE with WHERE user_id = $2 only.
DeleteRowsUserOnly(t, scope, userID) ==
    SelectSeq(t, LAMBDA r : ~(r.user_id = userID))

\* The DELETE with WHERE scope = $1 only.
DeleteRowsScopeOnly(t, scope, userID) ==
    SelectSeq(t, LAMBDA r : ~(r.scope = scope))

\* The table after DELETE FROM tokens WHERE scope = $1 AND user_id = $2.
DeleteRows(t, scope, userID) ==
    SelectSeq(t, LAMBDA r : ~(r.scope = scope /\ r.user_id = userID))

\* New that drops Insert's error.
NewResultNil(inserr) == Nil

\* The error New returns: the one Insert returned.
NewResult(inserr) == inserr

\* TokenModel.New(userID, ttl, scope): generateToken, then Insert.
TokenNew(userID, ttl, scope, rnd) ==
    LET g == GenerateToken(userID, ttl, scope, rnd, now) IN
    \E late \in Late :
        /\ Len(tokens) < MaxTokens
        /\ IF g.err # Nil
           THEN /\ tres' = [op |-> "New", token |-> NoToken, err |-> g.err, n |-> 0]
                /\ UNCHANGED tokens
           ELSE IF late
           THEN /\ tres' = [op |-> "New", token |-> g.token,
                            err |-> NewResult(ErrDeadline), n |-> 0]
                /\ UNCHANGED tokens
           ELSE /\ tokens' = Append(tokens, TokenRow(g.token))
                /\ tres' = [op |-> "New", token |-> g.token, err |-> NewResult(Nil), n |-> 1]
        /\ UNCHANGED now
        /\ UNCHANGED <<mvars, uvars, pvars>>

\* TokenModel.Insert(token), called with the token the caller holds.
TokenInsert ==
    \E late \in Late :
        /\ tres.token # NoToken
        /\ Len(tokens) < MaxTokens
        /\ IF late
           THEN /\ tres' = [op |-> "Insert", token |-> tres.token, err |-> ErrDeadline, n |-> 0]
                /\ UNCHANGED tokens
           ELSE /\ tokens' = Append(tokens, TokenRow(tres.token))
                /\ tres' = [op |-> "Insert", token |-> tres.token, err |-> Nil, n |-> 1]
        /\ UNCHANGED now
        /\ UNCHANGED <<mvars, uvars, pvars>>

\* TokenModel.DeleteAllForUser(scope, userID); n is the number of rows the
\* statement affected, which the code discards.
TokenDelete(scope, userID) ==
    \E late \in Late :
        /\ IF late
           THEN /\ tres' = [op |-> "DeleteAllForUser", token |-> tres.token,
                            err |-> ErrDeadline, n |-> 0]
                /\ UNCHANGED tokens
           ELSE /\ tokens' = DeleteRows(tokens, scope, userID)
                /\ tres' = [op |-> "DeleteAllForUser", token |-> tres.token, err |-> Nil,
                            n |-> Len(tokens) - Len(DeleteRows(tokens, scope, userID))]
        /\ UNCHANGED now
        /\ UNCHANGED <<mvars, uvars, pvars>>

\* Time passes; nothing in the code acts on it.
Tick ==
    /\ now < MaxTime
    /\ now' = now + 1
    /\ UNCHANGED <<tokens, tres>>
    /\ UNCHANGED <<mvars, uvars, pvars>>

NextTokens ==
    \/ \E u \in TokenUsers, ttl \in TTLs, sc \in Scopes, rnd \in RandOutcomes :
          TokenNew(u, ttl, sc, rnd)
    \/ TokenInsert
    \/ \E sc \in Scopes, u \in TokenUsers : TokenDelete(sc, u)
    \/ Tick

(***************************************************************************)
(* package data: password, and the validation of users                     *)
(***************************************************************************)
\* A byte string of n bytes b.
Bytes(n, b) == [k \in 1..n |-> b]

\* A nil pointer or slice, and a pointer to (a slice holding) x.
NilPtr == <<>>
Ptr(x) == <<x>>

\* The passwords callers set and try: 7, 8, 72 and 73 bytes of "a", 8 bytes
\* of "b", and 8 bytes of "a", a NUL byte and 8 bytes of "a" again.
Passwords ==
    {Bytes(7, 97), Bytes(8, 97), Bytes(8, 98), Bytes(72, 97), Bytes(73, 97),
     Bytes(8, 97) \o <<0>> \o Bytes(8, 97)}

\* The cost Set asks bcrypt for.
Cost == 12
\* The bytes of the key that bcrypt's Blowfish key schedule reads.
KeyBytes == 72
\* The salts bcrypt can draw from crypto/rand.
Salts == {"salt1", "salt2"}
ErrSalt == "rand error"
ErrPasswordTooLong == "bcrypt: password length exceeds 72 bytes"
ErrHashTooShort == "bcrypt: hashedSecret too short to be a bcrypted password"
ErrMismatchedHashAndPassword == "bcrypt: hashedPassword is not the hash of the given password"

\* The key bcrypt hashes: the password and a terminating NUL byte, read
\* cyclically for KeyBytes bytes.
BcryptKey(password) ==
    LET key == password \o <<0>>
    IN [k \in 1..KeyBytes |-> key[((k - 1) % Len(key)) + 1]]

\* The bcrypt digest, taken as a collision-free function of cost, salt and key.
Bcrypt(password, cost, salt) ==
    [cost |-> cost, salt |-> salt, key |-> BcryptKey(password)]

\* bcrypt.GenerateFromPassword(password, cost) when rand gives salt.  Releases
\* of x/crypto differ on passwords of more than 72 bytes: the later ones
\* (strict) refuse them, the earlier ones hash them.
GenerateFromPassword(password, cost, salt, strict) ==
    IF strict /\ Len(password) > KeyBytes
    THEN [hash |-> NilPtr, err |-> ErrPasswordTooLong]
    ELSE IF salt \notin Salts
    THEN [hash |-> NilPtr, err |-> ErrSalt]
    ELSE [hash |-> Ptr(Bcrypt(password, cost, salt)), err |-> Nil]

\* bcrypt.CompareHashAndPassword(hash, password)
CompareHashAndPassword(hash, password) ==
    IF hash = NilPtr
    THEN ErrHashTooShort
    ELSE IF Bcrypt(password, hash[1].cost, hash[1].salt) = hash[1]
    THEN Nil
    ELSE ErrMismatchedHashAndPassword

\* password.Set(ptPassword)
PasswordSet(ptPassword) ==
    \E salt \in Salts \cup {ErrSalt}, strict \in BOOLEAN :
        LET g == GenerateFromPassword(ptPassword, Cost, salt, strict) IN
        /\ IF g.err # Nil
           THEN /\ pres' = [op |-> "Set", arg |-> ptPassword, ok |-> FALSE, err |-> g.err]
                /\ UNCHANGED pw
           ELSE /\ pw' = [plaintext |-> Ptr(ptPassword), hash |-> g.hash]
                /\ pres' = [op |-> "Set", arg |-> ptPassword, ok |-> TRUE, err |-> Nil]
        /\ UNCHANGED <<vin, vout>>
        /\ UNCHANGED <<mvars, uvars, tvars>>

\* What Matches returns for the error of CompareHashAndPassword.
MatchesResult(cmp) ==
    IF cmp = Nil THEN [ok |-> TRUE, err |-> Nil]
    ELSE IF cmp = ErrMismatchedHashAndPassword THEN [ok |-> FALSE, err |-> Nil]
    ELSE [ok |-> FALSE, err |-> cmp]

\* password.Matches(ptPassword)
PasswordMatches(ptPassword) ==
    LET r == MatchesResult(CompareHashAndPassword(pw.hash, ptPassword)) IN
    /\ pres' = [op |-> "Matches", arg |-> ptPassword, ok |-> r.ok, err |-> r.err]
    /\ UNCHANGED <<pw, vin, vout>>
    /\ UNCHANGED <<mvars, uvars, tvars>>

NextPassword ==
    \/ \E p \in Passwords : PasswordSet(p)
    \/ \E p \in Passwords : PasswordMatches(p)

\* validator.New().Errors, and Validator.Check(ok, key, message): the first
\* message recorded for a key stays.
NoErrors == <<>>
Check(errors, ok, key, message) ==
    IF ok \/ key \in DOMAIN errors THEN errors ELSE errors @@ (key :> message)

\* validator.Matches(email, validator.EmailRX)
MatchesEmailRX(email) == email \in Emails

ValidateEmail(errors, email) ==
    LET e1 == Check(errors, email # "", "email", "must be provided")
    IN Check(e1, MatchesEmailRX(email), "email", "must be a valid email address")

ValidatePasswordPlainText(errors, password) ==
    LET e1 == Check(errors, password # <<>>, "password", "must be provided")
        e2 == Check(e1, Len(password) >= 8, "password", "must be at least 8 bytes long")
    IN Check(e2, Len(password) <= 72, "password", "must not be more than 72 bytes long")

\* The field errors of ValidateUser, before it looks at the hash.
FieldErrors(errors, user) ==
    LET e1 == Check(errors, user.Name # <<>>, "name", "must be provided")
        e2 == Check(e1, Len(user.Name) <= 500, "name", "must not be more than 500 bytes long")
        e3 == ValidateEmail(e2, user.Email)
    IN IF user.Password.plaintext # NilPtr
       THEN ValidatePasswordPlainText(e3, user.Password.plaintext[1])
       ELSE e3

\* ValidateUser that records a nil hash as an error of the password field.
ValidateUserFieldError(errors, user) ==
    [Errors |-> Check(FieldErrors(errors, user), user.Password.hash # NilPtr,
                      "password", "must be provided"),
     panic |-> Nil]

\* ValidateUser(v, user): the errors left in v, and the value it panics with.
ValidateUser(errors, user) ==
    [Errors |-> FieldErrors(errors, user),
     panic |-> IF user.Password.hash = NilPtr
               THEN "missing password hash for user"
               ELSE Nil]

\* The users handed to ValidateUser.
ValidateInputs ==
    [Name : {<<>>, <<65, 108, 105, 99, 101>>, Bytes(501, 97)},
     Email : {"", "not an email"} \cup Emails,
     Password : [plaintext : {NilPtr} \cup {Ptr(p) : p \in Passwords \cup {<<>>}},
                 hash : {NilPtr, Ptr(Bcrypt(Bytes(8, 97), Cost, "salt1"))}]]

\* A caller validates the user it holds, with a new validator.
ValidateUserCall ==
    /\ vout.op = "none"
    /\ LET r == ValidateUser(NoErrors, vin) IN
           vout' = [op |-> "ValidateUser", Errors |-> r.Errors, panic |-> r.panic]
    /\ UNCHANGED <<pw, pres, vin>>
    /\ UNCHANGED <<mvars, uvars, tvars>>

NextValidate == ValidateUserCall


InitMailer ==
    /\ mpc = "idle"
    /\ margs = [recipient |-> "a@x.com", templateFile |-> "user_welcome.tmpl"]
    /\ i = 0
    /\ err = Nil
    /\ ret = Nil
    /\ dials = 0
    /\ sleeps = 0
    /\ steps = <<>>
    /\ outbox = [r \in Recipients |-> 0]
    /\ sends = 0

\* An empty table, callers holding no record, a store that answers in time.
InitUsers ==
    /\ users = <<>>
    /\ local = [w \in Writers |-> NoUser]
    /\ res = [op |-> "none", err |-> Nil]
    /\ slow = FALSE
    /\ wins = [k \in (0..MaxUsers) \X (0..MaxVersion) |-> 0]

\* The same, with a store that may exceed the deadline.
InitUsersSlow ==
    /\ users = <<>>
    /\ local = [w \in Writers |-> NoUser]
    /\ res = [op |-> "none", err |-> Nil]
    /\ slow = TRUE
    /\ wins = [k \in (0..MaxUsers) \X (0..MaxVersion) |-> 0]

\* An empty tokens table at time 0.
InitTokens ==
    /\ tokens = <<>>
    /\ now = 0
    /\ tres = [op |-> "none", token |-> NoToken, err |-> Nil, n |-> 0]

\* A zero password struct and no ValidateUser call.
InitPassword ==
    /\ pw = [plaintext |-> NilPtr, hash |-> NilPtr]
    /\ pres = [op |-> "none"]

InitPure ==
    /\ InitPassword
    /\ vin = [Name |-> "none"]
    /\ vout = [op |-> "none"]

\* The state in which a caller holds any of the users to validate.
InitValidate ==
    /\ InitMailer
    /\ InitUsers
    /\ InitTokens
    /\ InitPassword
    /\ vin \in ValidateInputs
    /\ vout = [op |-> "none"]

Init == InitMailer /\ InitUsers /\ InitTokens /\ InitPure

\* The mailer and the user store share no state: Spec is their composition,
\* SpecMailer and SpecUsers are the components on their own.
Next == NextMailer \/ NextUsers \/ NextTokens \/ NextPassword

Spec == Init /\ [][Next]_vars

SpecUsers == Init /\ [][NextUsers]_vars

InitSlow == InitMailer /\ InitUsersSlow /\ InitTokens /\ InitPure

SpecUsersSlow == InitSlow /\ [][NextUsers]_vars

SpecTokens == Init /\ [][NextTokens]_vars

SpecTokensSlow == InitSlow /\ [][NextTokens]_vars

SpecPassword == Init /\ [][NextPassword]_vars

SpecValidate == InitValidate /\ [][NextValidate]_vars

SpecMailer == Init /\ [][NextMailer]_vars

\* Send runs on the calling goroutine: DialAndSend is bounded by the dialer's
\* timeout and Sleep returns, so a started call keeps taking its steps.
FairSpecMailer == SpecMailer /\ WF_vars(SendStep)

(***************************************************************************)
(* Claims about Mailer.Send                                                *)
(***************************************************************************)
\* Every delivery attempt of the finished call failed.
AllAttemptsFailed == mpc = "done" /\ dials = MaxAttempts /\ err \in DialErrors

\* The state part of C5: attempts are sequential and at most three, a rendered
\* call ends after at least one attempt, a call that ended on a successful
\* attempt returned nil with no wait after that attempt, and a finished call
\* takes no further step.
C5_Safe ==
    /\ dials <= MaxAttempts
    /\ mpc = "dial" => (dials = i - 1 /\ sleeps = i - 1)
    /\ mpc = "sleep" => (dials = i /\ sleeps = i - 1 /\ err \in DialErrors)
    /\ (mpc = "done" /\ Renders(margs.templateFile)) => dials >= 1
    /\ (mpc = "done" /\ dials >= 1 /\ err = Nil) => (ret = Nil /\ sleeps = dials - 1)
    /\ mpc = "done" => ~ENABLED SendStep

\* The step part of C5: the attempt that succeeds is the step that returns nil.
C5_Step == Dial(Nil) => (mpc' = "done" /\ ret' = Nil /\ sleeps' = sleeps)

\* C5: once the templates have rendered, Send makes between 1 and 3 delivery
\* attempts, one after another, returns nil right after the first attempt that
\* succeeds with no further attempt or wait, and every started call terminates.
C5_BoundedSequentialDelivery ==
    /\ []C5_Safe
    /\ [][C5_Step]_vars
    /\ (mpc \notin {"idle", "done"}) ~> (mpc = "done")

\* C5's case: the second attempt succeeded and the call returned.
C5_Witness == mpc = "done" /\ dials = 2 /\ sleeps = 1 /\ err = Nil /\ ret = Nil

C7_ExhaustedReturnsFinalError ==
    /\ dials <= MaxAttempts
    /\ AllAttemptsFailed => ret = err

\* C8: against a transport on which every attempt fails, Send makes exactly 3
\* attempts and exactly 2 waits of 500ms (1 second in total), none of them
\* after the third attempt.
C8_TwoBackoffWaits ==
    /\ (mpc = "done" /\ Renders(margs.templateFile) /\ err \in DialErrors) =>
           (dials = 3 /\ sleeps = 2 /\ sleeps * BackoffMs = 1000)
    /\ ~(mpc = "sleep" /\ dials = 3)

\* The bundle lacks file f (for ParseFS) or f lacks fragment s.
Defective(s, f) ==
    IF s = "parse" THEN f \notin DOMAIN TemplateFS ELSE s \notin TemplateFS[f]

\* C9: if the template cannot be loaded or a fragment fails to render, Send
\* returns an error with no delivery attempt and no wait, and no template
\* operation is executed twice.
C9_TemplateFailureNotRetried ==
    (mpc # "idle" /\ ~Renders(margs.templateFile)) =>
        /\ dials = 0 /\ sleeps = 0
        /\ mpc \notin {"dial", "sleep"}
        /\ \A j, k \in 1..Len(steps) : steps[j] = steps[k] => j = k
        /\ mpc = "done" =>
              /\ ret = TemplateErr
              /\ Defective(steps[Len(steps)], margs.templateFile)
              /\ \A j \in 1..(Len(steps) - 1) : ~Defective(steps[j], margs.templateFile)

\* C9's case: the plaintext body failed to render and the call returned.
C9_Witness ==
    /\ mpc = "done" /\ margs.templateFile = "no_plain.tmpl"
    /\ steps = <<"parse", "subject", "plainBody">> /\ ret = TemplateErr

(***************************************************************************)
(* Claims about UserModel (checked for statements that complete within the *)
(* deadline: SpecUsers)                                                    *)
(***************************************************************************)
\* The record caller w passes to Update after edit ed.
Passed(w, ed) == Apply(local[w], ed)

\* The stored version of the row the record names differs from the record's.
Stale(u) == users[u.ID].version # u.Version

\* Another stored user holds the record's email.
Collides(u) == \E id \in DOMAIN users : id # u.ID /\ users[id].email = u.Email

\* The unrecoverable fault ValidateUser raises for a nil hash.
Fault == "panic: missing password hash for user"

\* C1 as stated: Update with a version other than the stored one fails with
\* ErrEditConflict and leaves the table unchanged; Update with the stored
\* version succeeds and the stored version becomes that version + 1.
C1_Original ==
    [][\A w \in Writers, ed \in Edits :
         (local[w] # NoUser /\ Update(w, ed)) =>
            IF Stale(Passed(w, ed))
            THEN res'.err = ErrEditConflict /\ users' = users
            ELSE res'.err = Nil
                 /\ users'[local[w].ID].version = local[w].Version + 1]_vars

\* C1 as amended: as C1, except that Update with the stored version fails with
\* ErrDuplicateEmail, the table unchanged, when another stored user holds the
\* record's email; otherwise it succeeds, the row takes the record's fields and
\* the stored version becomes that version + 1, every other row unchanged.
C1_VersionChecked ==
    [][\A w \in Writers, ed \in Edits :
         (local[w] # NoUser /\ Update(w, ed)) =>
            LET u == Passed(w, ed) IN
            IF Stale(u)
            THEN res'.err = ErrEditConflict /\ users' = users
            ELSE IF Collides(u)
            THEN res'.err = ErrDuplicateEmail /\ users' = users
            ELSE /\ res'.err = Nil
                 /\ users'[u.ID].version = u.Version + 1
                 /\ users'[u.ID].version = users[u.ID].version + 1
                 /\ \A id \in DOMAIN users : id # u.ID => users'[id] = users[id]
                 /\ DOMAIN users' = DOMAIN users]_vars

\* C1's case: an Update with a stale version has just been refused.
C1_Witness ==
    /\ res = [op |-> "Update", err |-> ErrEditConflict]
    /\ \E w \in Writers :
          /\ local[w] # NoUser
          /\ local[w].Version < users[local[w].ID].version

\* Successful Updates on row id so far.
Successes(id) ==
    LET Sum[v \in -1..MaxVersion] == IF v = -1 THEN 0 ELSE Sum[v - 1] + wins[<<id, v>>]
    IN Sum[MaxVersion]

C2_NoLostUpdate ==
    /\ \A k \in DOMAIN wins : wins[k] <= 1
    /\ \A id \in DOMAIN users : users[id].version = 1 + Successes(id)

C2_LoserConflicts ==
    \A w \in Writers, ed \in Edits :
        (local[w] # NoUser /\ Update(w, ed)
            /\ wins[<<local[w].ID, local[w].Version>>] >= 1) =>
                (res'.err = ErrEditConflict /\ users' = users /\ wins' = wins)

C3_Unique ==
    \A a, b \in DOMAIN users : users[a].email = users[b].email => a = b

C3_InsertStep ==
    \A w \in Writers, n \in Names, e \in Emails, h \in Hashes :
        Insert(w, n, e, h) =>
            IF \E id \in DOMAIN users : users[id].email = e
            THEN res'.err = ErrDuplicateEmail /\ users' = users
            ELSE /\ res'.err = Nil
                 /\ Len(users') = Len(users) + 1
                 /\ \A id \in DOMAIN users : users'[id] = users[id]
                 /\ local'[w].ID = Len(users')
                 /\ local'[w].Version = 1
                 /\ users'[Len(users')].version = 1
                 /\ users'[Len(users')].email = e

\* C3: after any interleaving of Insert and Update calls no two stored users
\* have the same email; an Insert of an email no stored user holds succeeds with
\* a fresh store-assigned id and version 1, an Insert of an email a stored user
\* holds fails with ErrDuplicateEmail, adds no row and changes no row.
C3_UniqueEmail == []C3_Unique /\ [][C3_InsertStep]_vars

\* C3's case: a second Insert of a stored email has just been refused.
C3_Witness ==
    /\ res = [op |-> "Insert", err |-> ErrDuplicateEmail]
    /\ Len(users) = 1
    /\ users[1].version = 1

\* C4: an Update that passes the stored version but whose email another stored
\* user holds fails with ErrDuplicateEmail and leaves the table unchanged.
C4_UpdateDuplicateEmail ==
    [][\A w \in Writers, ed \in Edits :
         (local[w] # NoUser /\ Update(w, ed)
             /\ ~Stale(Passed(w, ed)) /\ Collides(Passed(w, ed))) =>
                (res'.err = ErrDuplicateEmail /\ users' = users)]_vars

\* C4's case: an Update to another user's email has just been refused, and the
\* caller's version is the stored one.
C4_Witness ==
    /\ res = [op |-> "Update", err |-> ErrDuplicateEmail]
    /\ Len(users) = 2
    /\ \E w \in Writers :
          /\ local[w] # NoUser
          /\ local[w].Version = users[local[w].ID].version
          /\ local[w].Email # users[local[w].ID].email

\* C10: every stored user has a password digest: Insert or Update called with
\* a user whose digest is absent raises an unrecoverable fault and persists
\* nothing.
C10_DigestAlwaysPresent ==
    /\ [](\A id \in DOMAIN users : users[id].hash # NoHash)
    /\ [][/\ \A w \in Writers, n \in Names, e \in Emails :
               Insert(w, n, e, NoHash) => (res'.err = Fault /\ users' = users)
          /\ \A w \in Writers, ed \in Edits :
               (local[w] # NoUser /\ Passed(w, ed).hash = NoHash /\ Update(w, ed))
                   => (res'.err = Fault /\ users' = users)]_vars

\* The errors of the store's own taxonomy; TimeoutError is the one the deadline
\* is to be reported as.
ErrTimeout == "TimeoutError"
StoreErrors == {Nil, ErrDuplicateEmail, ErrEditConflict, ErrRecordNotFound, ErrTimeout}

\* C15: a UserModel call that exceeds its deadline returns TimeoutError, an
\* error of the store's own taxonomy, never the raw error of the driver or the
\* context.
C15_DeadlineIsTimeoutError ==
    /\ res.err \in StoreErrors
    /\ res.err # ErrDeadline

\* C17: GetByEmail returns ErrRecordNotFound and no record when no stored user
\* has the email, and the stored record (id, name, email, digest, activation
\* flag, version) when one has; it never changes the table.
C17_GetByEmail ==
    [][\A w \in Writers, e \in Emails :
         GetByEmail(w, e) =>
            /\ users' = users
            /\ IF \A id \in DOMAIN users : users[id].email # e
               THEN res'.err = ErrRecordNotFound /\ local'[w] = NoUser
               ELSE /\ res'.err = Nil
                    /\ local'[w] # NoUser
                    /\ local'[w].ID \in DOMAIN users
                    /\ LET r == users[local'[w].ID] IN
                          /\ r.email = e
                          /\ local'[w].Email = e
                          /\ local'[w].Name = r.name
                          /\ local'[w].hash = r.hash
                          /\ local'[w].Activated = r.activated
                          /\ local'[w].Version = r.version]_vars

\* C17's case: a lookup of an email no stored user has, in a table that holds
\* another user.
C17_Witness ==
    /\ res = [op |-> "GetByEmail", err |-> ErrRecordNotFound]
    /\ Len(users) = 1
    /\ \E w \in Writers : local[w] = NoUser

\* C19: after a successful Update the caller's Version is the new stored
\* version and the record matches the stored row, so that an Update of the same
\* record with no writer in between passes the version test again; after a
\* failed Update the caller's Version is unchanged.
C19_RecordInStep ==
    [][\A w \in Writers, ed \in Edits :
         (local[w] # NoUser /\ Update(w, ed)) =>
            IF res'.err = Nil
            THEN /\ local'[w].ID = local[w].ID
                 /\ local'[w].Version = local[w].Version + 1
                 /\ local'[w].Version = users'[local'[w].ID].version
                 /\ local'[w].Email = users'[local'[w].ID].email
                 /\ local'[w].hash = users'[local'[w].ID].hash
                 /\ (~Stale(local[w]) /\ ~Collides(local[w]))'
            ELSE /\ res'.err \in {ErrEditConflict, ErrDuplicateEmail}
                 /\ local'[w].Version = local[w].Version]_vars

\* C19's case: a caller's second Update in a row has just succeeded.
C19_Witness ==
    /\ res = [op |-> "Update", err |-> Nil]
    /\ \E w \in Writers :
          /\ local[w] # NoUser
          /\ local[w].Version = 3
          /\ users[local[w].ID].version = 3
          /\ wins[<<local[w].ID, 1>>] = 1 /\ wins[<<local[w].ID, 2>>] = 1

(***************************************************************************)
(* Tokens                                                                  *)
(***************************************************************************)
\* Row r has the scope and the owner a DeleteAllForUser call names.
Owned(r, sc, u) == r.scope = sc /\ r.user_id = u

\* The rows of t that such a call does not name, in their order.
Others(t, sc, u) == SelectSeq(t, LAMBDA r : ~Owned(r, sc, u))

\* C11: DeleteAllForUser(scope, userID) succeeds, removes every row whose
\* scope and owner both match, and leaves every other row as it was; with no
\* matching row it changes nothing, and a second call after it would leave the
\* store as the first one did.
C11_DeleteAllForUser ==
    [][\A sc \in Scopes, u \in TokenUsers : TokenDelete(sc, u) =>
          /\ tres'.err = Nil
          /\ \A k \in 1..Len(tokens') : ~Owned(tokens'[k], sc, u)
          /\ tokens' = Others(tokens, sc, u)
          /\ (\A k \in 1..Len(tokens) : ~Owned(tokens[k], sc, u)) => tokens' = tokens
          /\ DeleteRows(tokens', sc, u) = tokens']_vars

\* A call removed one row and left a row of another scope or owner.
C11_Witness ==
    /\ tres.op = "DeleteAllForUser"
    /\ tres.err = Nil
    /\ tres.n = 1
    /\ Len(tokens) = 1

\* C12: every step that is not a DeleteAllForUser call keeps every stored
\* row, field for field, and can only add rows after them; a DeleteAllForUser
\* call removes exactly the rows of its scope and owner.  Issuing a token and
\* the passage of time remove nothing.
C12_RowsImmutable ==
    [][IF \E sc \in Scopes, u \in TokenUsers : TokenDelete(sc, u)
       THEN \E sc \in Scopes, u \in TokenUsers :
               TokenDelete(sc, u) /\ tokens' = Others(tokens, sc, u)
       ELSE /\ Len(tokens') >= Len(tokens)
            /\ SubSeq(tokens', 1, Len(tokens)) = tokens]_vars

\* A token was issued while a row that has reached its expiry is still stored.
C12_Witness ==
    /\ tres.op = "New"
    /\ tres.err = Nil
    /\ Len(tokens) = 2
    /\ tokens[1].expiry <= now

\* The value of a character of the base-32 alphabet; 0 for any other.
CharValue(c) ==
    IF \E v \in 0..31 : Alphabet[v + 1] = c
    THEN CHOOSE v \in 0..31 : Alphabet[v + 1] = c
    ELSE 0

\* Bit k (from 1) of the bits a base-32 text carries.
DecodedBit(text, k) ==
    (CharValue(text[((k - 1) \div 5) + 1]) \div (2 ^ (4 - ((k - 1) % 5)))) % 2

\* The first n bytes a base-32 text carries.
Base32Decode(text, n) ==
    [b \in 1..n |->
        128 * DecodedBit(text, 8 * b - 7) + 64 * DecodedBit(text, 8 * b - 6)
        + 32 * DecodedBit(text, 8 * b - 5) + 16 * DecodedBit(text, 8 * b - 4)
        + 8 * DecodedBit(text, 8 * b - 3) + 4 * DecodedBit(text, 8 * b - 2)
        + 2 * DecodedBit(text, 8 * b - 1) + DecodedBit(text, 8 * b)]

\* The bytes carried by each plaintext that can be issued, decoded once.
DecodedOf ==
    [text \in {PlainTextOf[b] : b \in DOMAIN PlainTextOf} |->
        IF Len(text) = 26 THEN Base32Decode(text, RandomLen) ELSE <<>>]

\* C13: a token that New issues has a plaintext of exactly 26 characters of
\* the base-32 alphabet that decodes to the 16 random bytes; the row added has
\* the digest of the plaintext as hash, the arguments as owner and scope, the
\* time of issuance plus ttl as expiry, and no other field; and random bytes
\* that differ give a different plaintext and a different digest.
C13_IssuedToken ==
    [][\A u \in TokenUsers, ttl \in TTLs, sc \in Scopes, rnd \in RandOutcomes :
          (rnd.ok /\ TokenNew(u, ttl, sc, rnd)) =>
              LET t == tres'.token
                  row == tokens'[Len(tokens')]
              IN /\ tres'.err = Nil
                 /\ Len(t.PlainText) = 26
                 /\ \A j \in 1..Len(t.PlainText) :
                        \E v \in 1..32 : Alphabet[v] = t.PlainText[j]
                 /\ DecodedOf[t.PlainText] = rnd.bytes
                 /\ t.Hash = Sha256(t.PlainText)
                 /\ Len(tokens') = Len(tokens) + 1
                 /\ DOMAIN row = {"hash", "user_id", "expiry", "scope"}
                 /\ row.hash = Sha256(t.PlainText)
                 /\ row.user_id = u
                 /\ row.scope = sc
                 /\ row.expiry = now + ttl
                 /\ \A r2 \in RandOutcomes :
                        (r2.ok /\ r2.bytes # rnd.bytes) =>
                            LET t2 == GenerateToken(u, ttl, sc, r2, now).token
                            IN t2.PlainText # t.PlainText /\ t2.Hash # row.hash]_vars

\* Two tokens of different plaintexts have been issued and stored.
C13_Witness ==
    /\ tres.op = "New"
    /\ tres.err = Nil
    /\ Len(tres.token.PlainText) = 26
    /\ Len(tokens) = 2
    /\ tokens[2].hash = tres.token.Hash
    /\ tokens[1].hash # tokens[2].hash

\* C14: when rand.Read fails, New returns an error and no token, and the
\* store is unchanged.
C14_RandomFailureAborts ==
    [][\A u \in TokenUsers, ttl \in TTLs, sc \in Scopes :
          TokenNew(u, ttl, sc, RandFail) =>
              /\ tres'.err # Nil
              /\ tres'.token = NoToken
              /\ tokens' = tokens]_vars

\* New failed on the random source with a row already in the store.
C14_Witness ==
    /\ tres.op = "New"
    /\ tres.err = ErrRand
    /\ tres.token = NoToken
    /\ Len(tokens) = 1

\* C20: when New returns a nil error the store has gained a row with the
\* hash, owner, scope and expiry of the returned token; when the token was
\* generated and the INSERT failed, New returns the INSERT's error.
C20_NilOnlyIfPersisted ==
    [][\A u \in TokenUsers, ttl \in TTLs, sc \in Scopes, rnd \in RandOutcomes :
          TokenNew(u, ttl, sc, rnd) =>
              /\ tres'.err = Nil =>
                    /\ tres'.token # NoToken
                    /\ Len(tokens') = Len(tokens) + 1
                    /\ tokens'[Len(tokens')].hash = tres'.token.Hash
                    /\ tokens'[Len(tokens')].user_id = tres'.token.UserID
                    /\ tokens'[Len(tokens')].scope = tres'.token.Scope
                    /\ tokens'[Len(tokens')].expiry = tres'.token.Expiry
              /\ (rnd.ok /\ tokens' = tokens) => tres'.err = ErrDeadline]_vars

\* New came back with the INSERT's error and the token it had generated.
C20_Witness ==
    /\ tres.op = "New"
    /\ tres.err = ErrDeadline
    /\ tres.token # NoToken
    /\ tokens = <<>>

(***************************************************************************)
(* Passwords and validation                                                *)
(***************************************************************************)
\* C16: once Set has stored a plaintext of 8 to 72 bytes, Matches returns
\* (true, nil) for that plaintext and (false, nil) for every other candidate.
C16_SetThenMatches ==
    [][\A c \in Passwords :
          (/\ pw.plaintext # NilPtr
           /\ Len(pw.plaintext[1]) >= 8
           /\ Len(pw.plaintext[1]) <= 72
           /\ PasswordMatches(c)) =>
              /\ pres'.err = Nil
              /\ pres'.ok = (c = pw.plaintext[1])]_vars

\* C18: ValidateUser panics exactly when the hash is nil, whatever the other
\* fields are, and the errors it leaves in the validator are those of the
\* name, the email and the plaintext alone: a nil hash adds none.
C18_PanicIffNoDigest ==
    vout.op = "ValidateUser" =>
        /\ vin.Password.hash = NilPtr => vout.panic # Nil
        /\ vin.Password.hash # NilPtr => vout.panic = Nil
        /\ DOMAIN vout.Errors \subseteq {"name", "email", "password"}
        /\ "name" \in DOMAIN vout.Errors <=> (vin.Name = <<>> \/ Len(vin.Name) > 500)
        /\ "email" \in DOMAIN vout.Errors <=> vin.Email \notin Emails
        /\ "password" \in DOMAIN vout.Errors <=>
              /\ vin.Password.plaintext # NilPtr
              /\ \/ Len(vin.Password.plaintext[1]) < 8
                 \/ Len(vin.Password.plaintext[1]) > 72

\* ValidateUser panicked on a user without a hash whose plaintext is valid, so
\* that no error of the password field was recorded, and whose name is not.
C18_Witness ==
    /\ vout.op = "ValidateUser"
    /\ vout.panic # Nil
    /\ vin.Password.plaintext = Ptr(Bytes(8, 97))
    /\ DOMAIN vout.Errors = {"name"}

====
